---- MODULE Spec2Model ----
(***************************************************************************)
(* A model of hypothesis/strategies.py: the strategy constructors          *)
(* (integers, floats, lists, sets, frozensets, dictionaries, text,         *)
(* binary), their argument validation, the values the built strategies     *)
(* yield, the scoped Settings default used while converting specifiers,    *)
(* and the search and shrink engine find that the strategies feed.         *)
(*                                                                         *)
(* Numbers.  A Python number is a record [k, q]: k is its type/kind        *)
(* ("none" for None, "int", "float" for a finite float, "inf", "ninf",     *)
(* "nan") and q its value in quarter units (the value is q / 4), so that   *)
(* halves such as 1.5 and the product (min_size + max_size) * 0.5 are      *)
(* exact.  An int has q divisible by 4.                                    *)
(***************************************************************************)
EXTENDS Integers, Sequences, FiniteSets, TLC

VARIABLES
    \* a constructor call: its arguments, what it returned or raised, and
    \* the value last drawn from the strategy it returned
    call, res, drawn,
    \* converting a specifier: the stack of Settings defaults, the
    \* define_*_strategy calls in progress, how the conversion stands, the
    \* last scope left, the strategy last built
    defaults, frames, status, lastExit, built,
    \* find: its state, the predicate, the strategy's simplify, the current
    \* best template, the position in its simplification sequence, the
    \* budgets used and how it ended
    phase, fails, shape, best, idx, examples, attempts, reason

ctorVars == <<call, res, drawn>>
settingsVars == <<defaults, frames, status, lastExit, built>>
findVars == <<phase, fails, shape, best, idx, examples, attempts, reason>>
vars == <<ctorVars, settingsVars, findVars>>

-----------------------------------------------------------------------------
(* Bounds of the model *)

\* largest integer size argument tried (sizes also take -1 and the halves)
MaxSize == 2
\* lengths a list strategy may yield are 0 .. MaxLen
MaxLen == 3
\* the largest finite float is FloatMax (in whole units); beyond it is inf
FloatMax == 2
\* integer bounds tried for integers() are -IntMax .. IntMax
IntMax == 2
\* an integer strategy unbounded above yields base .. base + IntSpan
IntSpan == 2

-----------------------------------------------------------------------------
(* Python numbers *)

None == [k |-> "none", q |-> 0]
IntNum(n) == [k |-> "int", q |-> 4 * n]
\* the float h / 2
HalfNum(h) == [k |-> "float", q |-> 2 * h]
FloatNum(n) == [k |-> "float", q |-> 4 * n]
Inf == [k |-> "inf", q |-> 0]
NegInf == [k |-> "ninf", q |-> 0]
NaN == [k |-> "nan", q |-> 0]

IsNone(x) == x.k = "none"
IsFinite(x) == x.k \in {"int", "float"}
isnan(x) == x.k = "nan"
isinf(x) == x.k \in {"inf", "ninf"}

\* the position of a non-NaN number on the extended real line
FloatMaxQ == 4 * FloatMax
Ord(x) == IF x.k = "inf" THEN 2 * FloatMaxQ + 1000
          ELSE IF x.k = "ninf" THEN 0 - (2 * FloatMaxQ + 1000)
          ELSE x.q
Comparable(x, y) == x.k \notin {"nan", "none"} /\ y.k \notin {"nan", "none"}
\* Python's <, <=, ==, >, >= on numbers: every comparison with NaN is False
Lt(x, y) == Comparable(x, y) /\ Ord(x) < Ord(y)
Le(x, y) == Comparable(x, y) /\ Ord(x) <= Ord(y)
Eq(x, y) == IF IsNone(x) \/ IsNone(y) THEN IsNone(x) /\ IsNone(y)
            ELSE Comparable(x, y) /\ Ord(x) = Ord(y)
Gt(x, y) == Lt(y, x)
Ge(x, y) == Le(y, x)

\* x - y on finite numbers far from overflow (sizes, Python ints)
Minus(x, y) == [k |-> IF x.k = "int" /\ y.k = "int" THEN "int" ELSE "float",
                q |-> x.q - y.q]
\* x * 2 on a finite number
Times2(x) == [k |-> x.k, q |-> 2 * x.q]
\* (x + y) * 0.5 on finite numbers
Mean(x, y) == [k |-> "float", q |-> (x.q + y.q) \div 2]
\* Python max(x, y) on finite numbers: the first argument unless y is greater
PyMax(x, y) == IF Gt(y, x) THEN y ELSE x
\* x or 0
OrZero(x) == IF IsNone(x) \/ (IsFinite(x) /\ x.q = 0) THEN IntNum(0) ELSE x
\* float subtraction x - y of finite floats: overflows to an infinity
FSub(x, y) == IF x.q - y.q > FloatMaxQ THEN Inf
              ELSE IF x.q - y.q < 0 - FloatMaxQ THEN NegInf
              ELSE [k |-> "float", q |-> x.q - y.q]

-----------------------------------------------------------------------------
(* Errors and argument checks *)

InvalidArgument == [tag |-> "InvalidArgument"]
AssertionError == [tag |-> "AssertionError"]
NotAStrategy == [tag |-> "NoneType"]
Raised(s) == s.tag \in {"InvalidArgument", "AssertionError"}

\* check_type(integer_types, arg): TRUE when it does not raise
check_type_integer(arg) == arg.k = "int"
\* check_type(integer_types + (float,), arg): TRUE when it does not raise
check_type_number(arg) == arg.k \in {"int", "float", "inf", "ninf", "nan"}
\* check_strategy(arg): TRUE when it does not raise
check_strategy(arg) == ~Raised(arg) /\ arg.tag # "NoneType"

\* check_valid_size(value, name): TRUE when it returns, FALSE when it raises
\* InvalidArgument
check_valid_size(value) ==
    IF IsNone(value) THEN TRUE
    ELSE IF ~check_type_number(value) THEN FALSE
    ELSE IF Lt(value, IntNum(0)) THEN FALSE
    ELSE IF value.k \in {"float", "inf", "ninf", "nan"} /\ isnan(value) THEN FALSE
    ELSE TRUE

\* check_valid_sizes(min_size, average_size, max_size): TRUE when it returns
check_valid_sizes(min_size, average_size, max_size) ==
    /\ check_valid_size(min_size)
    /\ check_valid_size(max_size)
    /\ check_valid_size(average_size)
    /\ ~(~IsNone(max_size) /\ ~IsNone(min_size) /\ Lt(max_size, min_size))
    /\ ~(~IsNone(max_size) /\ ~IsNone(average_size) /\ Lt(max_size, average_size))
    /\ ~(~IsNone(average_size) /\ ~IsNone(min_size) /\ Lt(average_size, min_size))

-----------------------------------------------------------------------------
(* Strategies.  A strategy is a record named by the class that implements  *)
(* it, holding the constructor arguments it was given.                     *)

just(value) == [tag |-> "JustStrategy", value |-> value]

\* s1 | s2, with an exception raised while building either one propagating
Or(s1, s2) == IF Raised(s1) THEN s1
              ELSE IF Raised(s2) THEN s2
              ELSE [tag |-> "OneOfStrategy", args |-> <<s1, s2>>]

IntegersFromStrategy(lower_bound, average_size) ==
    [tag |-> "IntegersFromStrategy", lower_bound |-> lower_bound,
     average_size |-> average_size]
BoundedIntStrategy(start, end) ==
    [tag |-> "BoundedIntStrategy", start |-> start, end |-> end]
\* IntegersFromStrategy(0).map(lambda x: max_value - x)
MaxMinusMap(base, max_value) ==
    [tag |-> "MappedStrategy", pack |-> "max_value - x", base |-> base,
     max_value |-> max_value]
\* the lambda of integers(): x |-> max_value - x
MaxMinusBad(max_value, x) == [k |-> "int", q |-> max_value.q + x.q]
MaxMinus(max_value, x) == Minus(max_value, x)

\* the default average_size of IntegersFromStrategy (its value is not read here)
DefaultIntAverage == [k |-> "float", q |-> 0]

integers(min_value, max_value) ==
    IF IsNone(min_value) THEN
        IF IsNone(max_value) THEN
            Or([tag |-> "RandomGeometricIntStrategy"],
               [tag |-> "WideRangeIntStrategy"])
        ELSE IF ~check_type_integer(max_value) THEN InvalidArgument
        ELSE MaxMinusMap(IntegersFromStrategy(IntNum(0), DefaultIntAverage),
                         max_value)
    ELSE IF ~check_type_integer(min_value) THEN InvalidArgument
    ELSE IF IsNone(max_value) THEN
        IntegersFromStrategy(min_value, DefaultIntAverage)
    ELSE IF Eq(min_value, max_value) THEN just(min_value)
    ELSE IF Gt(min_value, max_value) THEN InvalidArgument
    ELSE BoundedIntStrategy(min_value, max_value)

FixedBoundedFloatStrategy(lower_bound, upper_bound) ==
    [tag |-> "FixedBoundedFloatStrategy", lower_bound |-> lower_bound,
     upper_bound |-> upper_bound]
FloatsFromBase(base, sign) ==
    [tag |-> "FloatsFromBase", base |-> base, sign |-> sign]
\* the six-way union floats() builds when neither bound is given
UnboundedFloats ==
    [tag |-> "WrapperFloatStrategy",
     args |-> <<"GaussianFloatStrategy", "BoundedFloatStrategy",
                "ExponentialFloatStrategy", "JustIntFloats", "NastyFloats",
                "FullRangeFloats">>]

\* the first loop of floats(): some given end point is NaN
NanEndPoint(min_value, max_value) ==
    \/ ~IsNone(min_value) /\ isnan(min_value)
    \/ ~IsNone(max_value) /\ isnan(max_value)
\* "if min_value == float('-inf'): min_value = None"
NormMinBad(min_value) == IF isinf(min_value) THEN None ELSE min_value
NormMin(min_value) == IF Eq(min_value, NegInf) THEN None ELSE min_value
\* "if max_value == float('inf'): max_value = None"
NormMax(max_value) == IF Eq(max_value, Inf) THEN None ELSE max_value

\* one half of the union floats() returns when max_value - min_value
\* overflows: the recursive call floats(min_value=lo, max_value=hi)
SplitHalfBad(lo, hi) == IF Eq(lo, IntNum(0)) THEN Or(FloatsFromBase(lo, 1), just(Inf))
                        ELSE Or(FloatsFromBase(hi, -1), just(NegInf))
RECURSIVE floats(_, _)
SplitHalf(lo, hi) == floats(lo, hi)

floats(min_value, max_value) ==
    IF NanEndPoint(min_value, max_value) THEN InvalidArgument
    ELSE LET mn == NormMin(min_value)
             mx == NormMax(max_value)
         IN IF IsNone(mn) /\ IsNone(mx) THEN UnboundedFloats
            ELSE IF ~IsNone(mn) /\ ~IsNone(mx) THEN
                IF Lt(mx, mn) THEN InvalidArgument
                ELSE IF Eq(mn, mx) THEN just(mn)
                ELSE IF isinf(FSub(mx, mn)) THEN
                    IF ~(Lt(mn, IntNum(0)) /\ Gt(mx, IntNum(0)))
                    THEN AssertionError
                    ELSE Or(SplitHalf(IntNum(0), mx), SplitHalf(mn, IntNum(0)))
                ELSE FixedBoundedFloatStrategy(mn, mx)
            ELSE IF ~IsNone(mn) THEN Or(FloatsFromBase(mn, 1), just(Inf))
            ELSE Or(FloatsFromBase(mx, -1), just(NegInf))

-----------------------------------------------------------------------------
(* The values a strategy yields.  The strategy classes live in              *)
(* hypothesis.searchstrategy; what each yields is taken from its contract. *)

\* the integers a draw may produce
IntUniverse == {IntNum(n) : n \in (0 - IntMax - IntSpan) .. (IntMax + IntSpan)}
\* the finite floats: halves between -FloatMax and FloatMax
FiniteFloats == {HalfNum(h) : h \in (0 - 2 * FloatMax) .. (2 * FloatMax)}

RECURSIVE Values(_)
Values(s) ==
    CASE s.tag = "JustStrategy" -> {s.value}
      [] s.tag = "OneOfStrategy" ->
            UNION {Values(s.args[i]) : i \in DOMAIN s.args}
      [] s.tag \in {"RandomGeometricIntStrategy", "WideRangeIntStrategy"} ->
            IntUniverse
      [] s.tag = "IntegersFromStrategy" ->
            {x \in IntUniverse : Ge(x, s.lower_bound)
                                 /\ x.q <= s.lower_bound.q + 4 * IntSpan}
      [] s.tag = "BoundedIntStrategy" ->
            {x \in IntUniverse : Le(s.start, x) /\ Le(x, s.end)}
      [] s.tag = "MappedStrategy" ->
            {MaxMinus(s.max_value, x) : x \in Values(s.base)}
      [] s.tag = "FixedBoundedFloatStrategy" ->
            {x \in FiniteFloats : Le(s.lower_bound, x) /\ Le(x, s.upper_bound)}
      [] s.tag = "FloatsFromBase" ->
            {x \in FiniteFloats : IF s.sign = 1 THEN Ge(x, s.base)
                                  ELSE Le(x, s.base)}
      [] s.tag = "WrapperFloatStrategy" ->
            FiniteFloats \cup {Inf, NegInf, NaN}
      [] OTHER -> {}

-----------------------------------------------------------------------------
(* Collections *)

\* an element strategy handed to a collection constructor, known here by
\* its template_upper_bound alone
ElementStrategy(bound) == [tag |-> "ElementStrategy", template_upper_bound |-> bound]
TupleStrategy(s1, s2) == [tag |-> "TupleStrategy", args |-> <<s1, s2>>]
SampledFromStrategy(n) == [tag |-> "SampledFromStrategy", n |-> n]
OneCharStringStrategy == [tag |-> "OneCharStringStrategy"]
EmptyString == [k |-> "str", q |-> 0]

\* bound1 * bound2 on template bounds (ints or inf)
BoundProduct(x, y) ==
    IF IsFinite(x) /\ IsFinite(y) THEN IntNum((x.q \div 4) * (y.q \div 4))
    ELSE IF (IsFinite(x) /\ x.q = 0) \/ (IsFinite(y) /\ y.q = 0) THEN IntNum(0)
    ELSE Inf

\* strategy.template_upper_bound
RECURSIVE template_upper_bound(_)
template_upper_bound(s) ==
    CASE s.tag = "ElementStrategy" -> s.template_upper_bound
      [] s.tag = "JustStrategy" -> IntNum(1)
      [] s.tag = "SampledFromStrategy" -> IntNum(s.n)
      [] s.tag = "BoundedIntStrategy" ->
            [k |-> "int", q |-> s.end.q - s.start.q + 4]
      [] s.tag = "TupleStrategy" ->
            BoundProduct(template_upper_bound(s.args[1]),
                         template_upper_bound(s.args[2]))
      [] OTHER -> Inf

\* ListStrategy(strategies, average_length=..., min_size=..., max_size=...);
\* None stands for an argument left to its default
ListStrategy(strategies, average_length, min_size, max_size) ==
    [tag |-> "ListStrategy", strategies |-> strategies,
     average_length |-> average_length, min_size |-> min_size,
     max_size |-> max_size]
SingleElementListStrategy(elements, length_strat) ==
    [tag |-> "SingleElementListStrategy", elements |-> elements,
     length_strat |-> length_strat]
SetStrategy(strategies, average_length, max_size) ==
    [tag |-> "SetStrategy", strategies |-> strategies,
     average_length |-> average_length, max_size |-> max_size]
\* result.filter(lambda x: len(x) >= min_size)
MinSizeFilter(base, min_size) ==
    [tag |-> "FilteredStrategy", base |-> base, min_size |-> min_size]
Wrap(class, base) == IF Raised(base) THEN base ELSE [tag |-> class, base |-> base]

\* sampled_from(elements) for an iterable of n elements
sampled_from(n) ==
    IF n = 0 THEN InvalidArgument
    ELSE IF n = 1 THEN just(IntNum(0))
    ELSE SampledFromStrategy(n)

\* the length strategy of the single-element representation in lists()
length_strat_bad(min_size, average_size, max_size) ==
    IF IsNone(max_size)
    THEN IntegersFromStrategy(IntNum(0), Minus(average_size, min_size))
    ELSE integers(IntNum(0), max_size)
length_strat(min_size, average_size, max_size) ==
    IF IsNone(max_size)
    THEN IntegersFromStrategy(min_size, Minus(average_size, min_size))
    ELSE integers(min_size, max_size)

\* lists(elements, min_size, average_size, max_size); default is
\* Settings.default.average_list_length at the time of the call
lists(elements, min_size, average_size, max_size, default) ==
    IF ~check_valid_sizes(min_size, average_size, max_size)
    THEN InvalidArgument
    ELSE LET mn == IF IsNone(min_size) THEN IntNum(0) ELSE min_size
             avg == IF IsNone(average_size)
                    THEN (IF IsNone(max_size) THEN default
                          ELSE Mean(mn, max_size))
                    ELSE average_size
         IN IF elements.tag = "NoneType"
               \/ (~IsNone(max_size) /\ Le(max_size, IntNum(0)))
            THEN IF IsNone(max_size) \/ Gt(max_size, IntNum(0))
                 THEN InvalidArgument
                 ELSE ListStrategy(<<>>, None, None, None)
            ELSE IF ~check_strategy(elements) THEN InvalidArgument
            ELSE IF Eq(template_upper_bound(elements), IntNum(1))
            THEN LET ls == length_strat(mn, avg, max_size)
                 IN IF Raised(ls) THEN ls
                    ELSE SingleElementListStrategy(elements, ls)
            ELSE ListStrategy(<<elements>>, avg, mn, max_size)

\* "average_size or Settings.default.average_list_length"
OrDefault(average_size, default) ==
    IF IsNone(average_size) \/ (IsFinite(average_size) /\ average_size.q = 0)
    THEN default ELSE average_size

\* the test of sets() that min_size exceeds the elements' distinct templates
TooFewDistinctBad(elements, min_size) ==
    ~IsNone(min_size)
    /\ Lt(Minus(template_upper_bound(elements), IntNum(0 - 1)), min_size)
TooFewDistinct(elements, min_size) ==
    ~IsNone(min_size) /\ Lt(template_upper_bound(elements), min_size)

sets(elements, min_size, average_size, max_size, default) ==
    IF ~check_valid_sizes(min_size, average_size, max_size)
    THEN InvalidArgument
    ELSE IF Eq(max_size, IntNum(0)) THEN SetStrategy(<<>>, None, None)
    ELSE IF ~check_strategy(elements) THEN InvalidArgument
    ELSE IF TooFewDistinct(elements, min_size) THEN InvalidArgument
    ELSE LET result == SetStrategy(<<elements>>,
                                   OrDefault(average_size, default), max_size)
         IN IF ~IsNone(min_size) THEN MinSizeFilter(result, min_size)
            ELSE result

frozensets(elements, min_size, average_size, max_size, default) ==
    Wrap("FrozenSetStrategy",
         sets(elements, min_size, average_size, max_size, default))

\* fixed_dictionaries(dict_class())
EmptyFixedDictionary == [tag |-> "FixedKeysDictStrategy", mapping |-> <<>>]

\* the loop of build_dict from the i-th pair on, result being the mapping
\* built so far: the mapping at the end and the number of pairs read
RECURSIVE BuildDictFrom(_, _, _, _)
BuildDictFrom(data, i, result, max_size) ==
    IF i > Len(data) THEN [result |-> result, read |-> Len(data)]
    ELSE LET key == data[i][1]
             next == [x \in (DOMAIN result) \cup {key} |->
                         IF x = key THEN data[i][2] ELSE result[x]]
         IN IF ~IsNone(max_size)
               /\ Ge(IntNum(Cardinality(DOMAIN next)), max_size)
            THEN [result |-> next, read |-> i]
            ELSE BuildDictFrom(data, i + 1, next, max_size)

\* build_dict(data): assumed is the argument of assume(); when it is FALSE
\* the draw is discarded
build_dict(data, min_size, max_size) ==
    LET out == BuildDictFrom(data, 1, <<>>, max_size)
    IN [k |-> "dict", result |-> out.result, read |-> out.read,
        len |-> Len(data),
        assumed |-> IsNone(min_size)
                    \/ Ge(IntNum(Cardinality(DOMAIN out.result)), min_size)]

dictionaries(keys, values, min_size, average_size, max_size, default) ==
    IF ~check_valid_sizes(min_size, average_size, max_size)
    THEN InvalidArgument
    ELSE IF Eq(max_size, IntNum(0)) THEN EmptyFixedDictionary
    ELSE IF ~check_strategy(keys) \/ ~check_strategy(values)
    THEN InvalidArgument
    ELSE LET average == IF ~IsNone(min_size)
                        THEN PyMax(OrZero(average_size), Times2(min_size))
                        ELSE average_size
             base == lists(TupleStrategy(keys, values), min_size, average,
                           None, default)
         IN IF Raised(base) THEN base
            ELSE [tag |-> "MappedStrategy", pack |-> "build_dict",
                  base |-> base, min_size |-> min_size, max_size |-> max_size]

\* an alphabet argument of text(): None, a string of n characters, or a
\* strategy
NoAlphabet == [tag |-> "NoneType"]
StringAlphabet(n) == [tag |-> "str", n |-> n]

text(alphabet, min_size, average_size, max_size, default) ==
    IF alphabet.tag = "str" /\ alphabet.n = 0
    THEN IF Gt(OrZero(min_size), IntNum(0)) THEN InvalidArgument
         ELSE just(EmptyString)
    ELSE LET char_strategy ==
                 IF alphabet.tag = "NoneType" THEN OneCharStringStrategy
                 ELSE IF alphabet.tag = "str" THEN sampled_from(alphabet.n)
                 ELSE alphabet
         IN Wrap("StringStrategy",
                 lists(char_strategy, min_size, average_size, max_size, default))

binary(min_size, average_size, max_size, default) ==
    Wrap("BinaryStringStrategy",
         lists(integers(IntNum(0), IntNum(255)), min_size, average_size,
               max_size, default))

-----------------------------------------------------------------------------
(* The sizes a collection strategy yields (ListStrategy, SetStrategy and   *)
(* SingleElementListStrategy live in hypothesis.searchstrategy).           *)

LengthUniverse == 0 .. MaxLen

RECURSIVE Lengths(_)
Lengths(s) ==
    CASE s.tag \in {"ListStrategy", "SetStrategy"} /\ s.strategies = <<>> -> {0}
      [] s.tag = "ListStrategy" /\ s.strategies # <<>> ->
            {n \in LengthUniverse :
                /\ n = 0 \/ Ge(template_upper_bound(s.strategies[1]), IntNum(1))
                /\ Le(s.min_size, IntNum(n))
                /\ IsNone(s.max_size) \/ Le(IntNum(n), s.max_size)}
      [] s.tag = "SingleElementListStrategy" ->
            {v.q \div 4 : v \in {x \in Values(s.length_strat) :
                                    x.q \div 4 \in LengthUniverse}}
      [] s.tag = "SetStrategy" /\ s.strategies # <<>> ->
            {n \in LengthUniverse :
                /\ Le(IntNum(n), template_upper_bound(s.strategies[1]))
                /\ IsNone(s.max_size) \/ Le(IntNum(n), s.max_size)}
      [] s.tag = "FilteredStrategy" ->
            {n \in Lengths(s.base) : Ge(IntNum(n), s.min_size)}
      [] s.tag \in {"FrozenSetStrategy", "StringStrategy",
                    "BinaryStringStrategy"} -> Lengths(s.base)
      [] s.tag = "JustStrategy" -> {0}
      [] OTHER -> {}

-----------------------------------------------------------------------------
(* The parts of the state at rest *)

NoCall == [fn |-> "none", min |-> None, average |-> None, max |-> None,
           elements |-> NotAStrategy, default |-> None]
NoResult == [tag |-> "none"]

\* no constructor has been called
CtorIdle ==
    /\ call = NoCall
    /\ res = NoResult
    /\ drawn = None

\* find has not been called
FindIdle ==
    /\ phase = "Idle"
    /\ fails = {}
    /\ shape = "none"
    /\ best = 0
    /\ idx = 0
    /\ examples = 0
    /\ attempts = 0
    /\ reason = "none"

-----------------------------------------------------------------------------
(* Settings.  Settings.default is the top of a stack of Settings objects;   *)
(* "with settings:" pushes settings on entry and pops it on exit.  The     *)
(* Settings class lives in hypothesis.settings.                            *)

\* define_*_strategy calls nest at most MaxDepth deep
MaxDepth == 2
\* a collection specifier has at most MaxChildren elements
MaxChildren == 2

Settings(name, average_list_length) ==
    [name |-> name, average_list_length |-> average_list_length]
\* the process-wide default, an override active around the conversion, and
\* the settings the conversion is called with
ProcessDefault == Settings("default", IntNum(MaxSize + 1))
OuterOverride == Settings("outer", IntNum(2))
ConversionSettings == {Settings("s", IntNum(1)), Settings("t", HalfNum(3))}

Top(stack) == stack[Len(stack)]
Pop(stack) == SubSeq(stack, 1, Len(stack) - 1)
\* Settings.default
SettingsDefault == Top(defaults)
\* settings.__enter__ and settings.__exit__
SettingsEnter(stack, settings) == Append(stack, settings)
SettingsExit(stack) == Pop(stack)

\* what "with settings:" does to the stack of defaults when its body
\* raises, and when its body returns
WithExitOnRaiseBad(stack) == stack
WithExitOnRaise(stack) == SettingsExit(stack)
WithExitOnReturn(stack) == SettingsExit(stack)

NoExit == [how |-> "none", entry |-> <<>>, after |-> <<>>, depth |-> 0,
           settings |-> ProcessDefault, read |-> None]
\* the average_length a built collection strategy was given
RECURSIVE AverageLength(_)
AverageLength(s) ==
    CASE s.tag \in {"ListStrategy", "SetStrategy"} -> s.average_length
      [] s.tag \in {"FrozenSetStrategy", "FilteredStrategy"} ->
            AverageLength(s.base)
      [] OTHER -> None
SpecifierKinds == {"list", "set", "frozenset"}

SettingsIdle ==
    /\ defaults = <<ProcessDefault>>
    /\ frames = <<>>
    /\ status = "idle"
    /\ lastExit = NoExit
    /\ built = NoResult

\* the collection strategy define_<kind>_strategy builds from its elements;
\* empty is "not specifier"
BuildCollection(kind, empty, default) ==
    LET elements == IF empty THEN NotAStrategy ELSE ElementStrategy(Inf)
        max_size == IF empty THEN IntNum(0) ELSE None
    IN CASE kind = "list" -> lists(elements, None, None, max_size, default)
         [] kind = "set" -> sets(elements, None, None, max_size, default)
         [] kind = "frozenset" ->
               frozensets(elements, None, None, max_size, default)

\* a define_*_strategy call in progress: remaining elements of the specifier
\* are still to be converted; entry is the stack of defaults it was called
\* under
Frame(kind, settings, remaining, entry) ==
    [kind |-> kind, settings |-> settings, remaining |-> remaining,
     entry |-> entry]

\* define_list_strategy, define_set_strategy or define_frozen_set_strategy
\* is entered for a specifier of n elements: an empty one is built at once,
\* outside any scope; otherwise the scope of settings is entered
EnterDefine(kind, n, settings) ==
    IF n = 0
    THEN /\ built' = BuildCollection(kind, TRUE, SettingsDefault.average_list_length)
         /\ UNCHANGED <<defaults, lastExit>>
         /\ IF frames = <<>>
            THEN status' = "returned" /\ UNCHANGED frames
            ELSE /\ frames' = [frames EXCEPT ![Len(frames)].remaining = @ - 1]
                 /\ UNCHANGED status
    ELSE /\ frames' = Append(frames, Frame(kind, settings, n, defaults))
         /\ defaults' = SettingsEnter(defaults, settings)
         /\ status' = "converting"
         /\ UNCHANGED <<lastExit, built>>

\* strategy(specifier, settings) is called on a list, set or frozenset
StrategyOfSpecifier ==
    /\ status = "idle"
    /\ \E kind \in SpecifierKinds, n \in 0 .. MaxChildren,
          settings \in ConversionSettings :
          EnterDefine(kind, n, settings)
    /\ UNCHANGED <<ctorVars, findVars>>

\* the next element of the specifier is an IntegerRange(start, end):
\* integers(start, end) builds its strategy or raises
ConvertIntegerRange ==
    /\ status = "converting"
    /\ Top(frames).remaining > 0
    /\ \E start \in {IntNum(0), IntNum(1)}, end \in {IntNum(0), IntNum(1)} :
          IF Raised(integers(start, end))
          THEN status' = "raising" /\ UNCHANGED frames
          ELSE /\ frames' = [frames EXCEPT ![Len(frames)].remaining = @ - 1]
               /\ UNCHANGED status
    /\ UNCHANGED <<defaults, lastExit, built, ctorVars, findVars>>

\* the next element of the specifier is itself a list, set or frozenset,
\* converted with the same settings
ConvertNested ==
    /\ status = "converting"
    /\ Top(frames).remaining > 0
    /\ Len(frames) < MaxDepth
    /\ \E kind \in SpecifierKinds, n \in 0 .. MaxChildren :
          EnterDefine(kind, n, Top(frames).settings)
    /\ UNCHANGED <<ctorVars, findVars>>

\* every element is converted: the body of "with settings:" builds the
\* collection strategy, reading Settings.default, and the scope is left
ReturnFromScope ==
    /\ status = "converting"
    /\ Top(frames).remaining = 0
    /\ LET frame == Top(frames)
           result == BuildCollection(frame.kind, FALSE,
                                     SettingsDefault.average_list_length)
           after == IF Raised(result) THEN WithExitOnRaise(defaults)
                    ELSE WithExitOnReturn(defaults)
       IN /\ built' = result
          /\ defaults' = after
          /\ lastExit' = [how |-> IF Raised(result) THEN "raise" ELSE "return",
                          entry |-> frame.entry, after |-> after,
                          depth |-> Len(frames), settings |-> frame.settings,
                          read |-> AverageLength(result)]
          /\ frames' = IF Raised(result) \/ Len(frames) = 1 THEN Pop(frames)
                       ELSE [Pop(frames) EXCEPT ![Len(frames) - 1].remaining = @ - 1]
          /\ status' = IF Raised(result)
                       THEN (IF Len(frames) = 1 THEN "raised" ELSE "raising")
                       ELSE IF Len(frames) = 1 THEN "returned" ELSE "converting"
    /\ UNCHANGED <<ctorVars, findVars>>

\* InvalidArgument propagates out of the innermost "with settings:"
RaiseThroughScope ==
    /\ status = "raising"
    /\ frames # <<>>
    /\ LET frame == Top(frames)
           after == WithExitOnRaise(defaults)
       IN /\ defaults' = after
          /\ lastExit' = [how |-> "raise", entry |-> frame.entry,
                          after |-> after, depth |-> Len(frames),
                          settings |-> frame.settings, read |-> None]
          /\ frames' = Pop(frames)
          /\ status' = IF Len(frames) = 1 THEN "raised" ELSE "raising"
    /\ UNCHANGED <<built, ctorVars, findVars>>

\* a conversion starts with or without an override already in force
SettingsInit ==
    /\ CtorIdle
    /\ FindIdle
    /\ defaults \in {<<ProcessDefault>>, <<ProcessDefault, OuterOverride>>}
    /\ frames = <<>>
    /\ status = "idle"
    /\ lastExit = NoExit
    /\ built = NoResult

SettingsNext ==
    \/ StrategyOfSpecifier
    \/ ConvertIntegerRange
    \/ ConvertNested
    \/ ReturnFromScope
    \/ RaiseThroughScope

SettingsSpec == SettingsInit /\ [][SettingsNext]_vars

-----------------------------------------------------------------------------
(* find: the search and shrink engine (hypothesis.core), as its contract   *)
(* describes it.                                                           *)

\* templates are 0 .. MaxTemplate
MaxTemplate == 3
\* the example budget and the shrink attempt budget
MaxExamples == 3
MaxShrinks == 4

Templates == 0 .. MaxTemplate
\* the simplify of the strategy searched: none yields nothing; descend
\* yields 0 then t - 1; cycle yields the next template round and round;
\* self yields t itself; endless yields t - 1 and 0 over and over, never
\* ending
Shapes == {"none", "descend", "cycle", "self", "endless"}
\* simplify(template): the finite sequence, or the period of an endless one
Simplify(sh, t) ==
    CASE sh = "none" -> <<>>
      [] sh = "descend" -> IF t = 0 THEN <<>> ELSE <<0, t - 1>>
      [] sh = "cycle" -> <<(t + 1) % (MaxTemplate + 1)>>
      [] sh = "self" -> <<t>>
      [] sh = "endless" -> IF t = 0 THEN <<0>> ELSE <<t - 1, 0>>
Endless(sh) == sh = "endless"
\* the simplification sequence of t has an i-th candidate
HasCandidate(sh, t, i) == Endless(sh) \/ i <= Len(Simplify(sh, t))
\* the i-th candidate of the simplification sequence of t
Candidate(sh, t, i) ==
    LET xs == Simplify(sh, t) IN xs[((i - 1) % Len(xs)) + 1]

\* find(strategy, predicate) is called
FindInit ==
    /\ CtorIdle
    /\ SettingsIdle
    /\ phase = "Searching"
    /\ fails \in SUBSET Templates
    /\ shape \in Shapes
    /\ best = 0
    /\ idx = 0
    /\ examples = 0
    /\ attempts = 0
    /\ reason = "none"

\* one more shrink attempt is counted
CountAttemptBad(n) == n
CountAttempt(n) == n + 1
\* the position of the candidate evaluated after the i-th one passes the
\* predicate: the sequence is consumed in order, one candidate at a time
NextCandidateBad(i) == i + 2
NextCandidate(i) == i + 1
\* how a stop in ShrinkingFrontier is recorded: the pass over the current
\* best is complete, or candidates were left when the budget ran out
StopReasonBad(passComplete) == "converged"
StopReason(passComplete) == IF passComplete THEN "converged" ELSE "budget"

\* Searching: a template is drawn and the predicate evaluated on it; the
\* first failure moves to ShrinkingFrontier
DrawExample ==
    /\ phase = "Searching"
    /\ examples < MaxExamples
    /\ \E t \in Templates :
          /\ examples' = examples + 1
          /\ IF t \in fails
             THEN phase' = "ShrinkingFrontier" /\ best' = t /\ idx' = 1
             ELSE UNCHANGED <<phase, best, idx>>
    /\ UNCHANGED <<fails, shape, attempts, reason, ctorVars, settingsVars>>

\* Searching: the example budget is used up without a failure
GiveUp ==
    /\ phase = "Searching"
    /\ examples >= MaxExamples
    /\ phase' = "NotFound"
    /\ UNCHANGED <<fails, shape, best, idx, examples, attempts, reason,
                   ctorVars, settingsVars>>

\* ShrinkingFrontier: the next candidate of the current best is evaluated;
\* one that fails becomes the new best and the sequence restarts
TryCandidate ==
    /\ phase = "ShrinkingFrontier"
    /\ HasCandidate(shape, best, idx)
    /\ attempts < MaxShrinks
    /\ attempts' = CountAttempt(attempts)
    /\ IF Candidate(shape, best, idx) \in fails
       THEN best' = Candidate(shape, best, idx) /\ idx' = 1
       ELSE idx' = NextCandidate(idx) /\ UNCHANGED best
    /\ UNCHANGED <<phase, fails, shape, examples, reason, ctorVars,
                   settingsVars>>

\* ShrinkingFrontier: the pass over the current best is complete
Converge ==
    /\ phase = "ShrinkingFrontier"
    /\ ~HasCandidate(shape, best, idx)
    /\ phase' = "Done"
    /\ reason' = StopReason(TRUE)
    /\ UNCHANGED <<fails, shape, best, idx, examples, attempts, ctorVars,
                   settingsVars>>

\* ShrinkingFrontier: the shrink attempt budget is used up
BudgetExhausted ==
    /\ phase = "ShrinkingFrontier"
    /\ HasCandidate(shape, best, idx)
    /\ attempts >= MaxShrinks
    /\ phase' = "Done"
    /\ reason' = StopReason(FALSE)
    /\ UNCHANGED <<fails, shape, best, idx, examples, attempts, ctorVars,
                   settingsVars>>

\* ShrinkingFrontier: the deadline passes between two evaluations
Deadline ==
    /\ phase = "ShrinkingFrontier"
    /\ HasCandidate(shape, best, idx)
    /\ phase' = "Done"
    /\ reason' = StopReason(FALSE)
    /\ UNCHANGED <<fails, shape, best, idx, examples, attempts, ctorVars,
                   settingsVars>>

FindNext ==
    \/ DrawExample
    \/ GiveUp
    \/ TryCandidate
    \/ Converge
    \/ BudgetExhausted
    \/ Deadline

FindSpec == FindInit /\ [][FindNext]_vars
\* find is a loop that runs until it returns
FairFindSpec == FindSpec /\ WF_vars(FindNext)

-----------------------------------------------------------------------------
(* The calls.  A behaviour is one call of a constructor with arguments     *)
(* drawn from the sets below, then draws from the strategy it returned.    *)

\* arguments tried for integers(): None, ints, and the non-ints 0.5 and 1.0
IntegerArgs == {None, HalfNum(1), FloatNum(1)}
               \cup {IntNum(n) : n \in (0 - IntMax) .. IntMax}
\* arguments tried for floats()
FloatArgs == {None, NaN, Inf, NegInf} \cup FiniteFloats
\* sizes tried: None, NaN, -1, 0.5, 1.5 and 0 .. MaxSize
SizeArgs == {None, NaN, IntNum(0 - 1), HalfNum(1), HalfNum(3)}
            \cup {IntNum(n) : n \in 0 .. MaxSize}
\* element arguments tried: None and strategies of 0, 1, 2 and unboundedly
\* many distinct templates
ElementArgs == {NotAStrategy, ElementStrategy(Inf)}
               \cup {ElementStrategy(IntNum(n)) : n \in 0 .. 2}
AlphabetArgs == {NoAlphabet, ElementStrategy(IntNum(1)), ElementStrategy(Inf)}
                \cup {StringAlphabet(n) : n \in 0 .. 2}
\* values tried for Settings.default.average_list_length
DefaultAverages == {IntNum(1), IntNum(MaxSize + 1)}
\* keys and values of the pairs fed to build_dict
MaxKeys == 3
MaxData == 3
Keys == 1 .. MaxKeys
\* the keys a key strategy of the given template_upper_bound can yield
KeysOf(keys) == {key \in Keys : Le(IntNum(key), template_upper_bound(keys))}
Vals == {"a", "b"}
RECURSIVE SeqsUpTo(_, _)
SeqsUpTo(S, n) ==
    IF n = 0 THEN {<<>>}
    ELSE LET shorter == SeqsUpTo(S, n - 1)
         IN shorter \cup {Append(q, x) : q \in {r \in shorter : Len(r) = n - 1},
                                         x \in S}

Init ==
    /\ CtorIdle
    /\ SettingsIdle
    /\ FindIdle

CallIntegers ==
    /\ call.fn = "none"
    /\ \E min_value \in IntegerArgs, max_value \in IntegerArgs :
        /\ call' = [NoCall EXCEPT !.fn = "integers", !.min = min_value,
                                  !.max = max_value]
        /\ res' = integers(min_value, max_value)
    /\ UNCHANGED <<drawn, settingsVars, findVars>>

CallFloats ==
    /\ call.fn = "none"
    /\ \E min_value \in FloatArgs, max_value \in FloatArgs :
        /\ call' = [NoCall EXCEPT !.fn = "floats", !.min = min_value,
                                  !.max = max_value]
        /\ res' = floats(min_value, max_value)
    /\ UNCHANGED <<drawn, settingsVars, findVars>>

\* the arguments of a call of a sized constructor
SizedCall(fn, elements, min_size, average_size, max_size, default) ==
    [fn |-> fn, min |-> min_size, average |-> average_size, max |-> max_size,
     elements |-> elements, default |-> default]

CallLists ==
    /\ call.fn = "none"
    /\ \E e \in ElementArgs, mn \in SizeArgs, av \in SizeArgs, mx \in SizeArgs,
          d \in DefaultAverages :
        /\ call' = SizedCall("lists", e, mn, av, mx, d)
        /\ res' = lists(e, mn, av, mx, d)
    /\ UNCHANGED <<drawn, settingsVars, findVars>>

CallSets ==
    /\ call.fn = "none"
    /\ \E e \in ElementArgs, mn \in SizeArgs, av \in SizeArgs, mx \in SizeArgs,
          d \in DefaultAverages :
        /\ call' = SizedCall("sets", e, mn, av, mx, d)
        /\ res' = sets(e, mn, av, mx, d)
    /\ UNCHANGED <<drawn, settingsVars, findVars>>

CallFrozensets ==
    /\ call.fn = "none"
    /\ \E e \in ElementArgs, mn \in SizeArgs, av \in SizeArgs, mx \in SizeArgs,
          d \in DefaultAverages :
        /\ call' = SizedCall("frozensets", e, mn, av, mx, d)
        /\ res' = frozensets(e, mn, av, mx, d)
    /\ UNCHANGED <<drawn, settingsVars, findVars>>

\* dictionaries(keys, values, ...) with values a strategy; keys is the
\* elements field of the call
CallDictionaries ==
    /\ call.fn = "none"
    /\ \E e \in ElementArgs, mn \in SizeArgs, av \in SizeArgs, mx \in SizeArgs,
          d \in DefaultAverages :
        /\ call' = SizedCall("dictionaries", e, mn, av, mx, d)
        /\ res' = dictionaries(e, ElementStrategy(Inf), mn, av, mx, d)
    /\ UNCHANGED <<drawn, settingsVars, findVars>>

\* text(alphabet, ...); alphabet is the elements field of the call
CallText ==
    /\ call.fn = "none"
    /\ \E a \in AlphabetArgs, mn \in SizeArgs, av \in SizeArgs, mx \in SizeArgs,
          d \in DefaultAverages :
        /\ call' = SizedCall("text", a, mn, av, mx, d)
        /\ res' = text(a, mn, av, mx, d)
    /\ UNCHANGED <<drawn, settingsVars, findVars>>

CallBinary ==
    /\ call.fn = "none"
    /\ \E mn \in SizeArgs, av \in SizeArgs, mx \in SizeArgs,
          d \in DefaultAverages :
        /\ call' = SizedCall("binary", NotAStrategy, mn, av, mx, d)
        /\ res' = binary(mn, av, mx, d)
    /\ UNCHANGED <<drawn, settingsVars, findVars>>

\* one value is drawn from the strategy a numeric constructor returned
DrawValue ==
    /\ call.fn \in {"integers", "floats"}
    /\ ~Raised(res)
    /\ IsNone(drawn)
    /\ \E v \in Values(res) : drawn' = v
    /\ UNCHANGED <<call, res, settingsVars, findVars>>

\* one collection is drawn from the strategy a sized constructor returned;
\* what is kept of it is its length
DrawLength ==
    /\ call.fn \in {"lists", "sets", "frozensets", "text", "binary"}
    /\ ~Raised(res)
    /\ IsNone(drawn)
    /\ \E n \in Lengths(res) : drawn' = IntNum(n)
    /\ UNCHANGED <<call, res, settingsVars, findVars>>

\* one dictionary is drawn: the list strategy yields the pairs and
\* build_dict folds them
DrawDictionary ==
    /\ call.fn = "dictionaries"
    /\ ~Raised(res)
    /\ IsNone(drawn)
    /\ IF res.tag = "FixedKeysDictStrategy"
       THEN drawn' = [k |-> "dict", result |-> <<>>, read |-> 0, len |-> 0,
                      assumed |-> TRUE]
       ELSE \E data \in SeqsUpTo(KeysOf(call.elements) \X Vals, MaxData) :
               /\ Len(data) \in Lengths(res.base)
               /\ drawn' = build_dict(data, res.min_size, res.max_size)
    /\ UNCHANGED <<call, res, settingsVars, findVars>>

Next ==
    \/ CallIntegers
    \/ CallFloats
    \/ CallLists
    \/ CallSets
    \/ CallFrozensets
    \/ CallDictionaries
    \/ CallText
    \/ CallBinary
    \/ DrawValue
    \/ DrawLength
    \/ DrawDictionary

Spec == Init /\ [][Next]_vars

-----------------------------------------------------------------------------
(* Properties of the constructors *)

SizedConstructors == {"lists", "sets", "frozensets", "dictionaries", "text",
                      "binary"}
Zero == IntNum(0)

\* C1: every list drawn from lists(e, min_size=a, max_size=b) has a length n
\* with a <= n <= b, min_size None counting as 0 (and no upper bound when
\* max_size is None), on the general path, on the single-element path and on
\* the max_size = 0 path, where the length is 0.
C1_ListLengthWithinBounds ==
    (call.fn = "lists" /\ ~IsNone(drawn)) =>
        /\ Ge(drawn, IF IsNone(call.min) THEN Zero ELSE call.min)
        /\ ~IsNone(call.max) => Le(drawn, call.max)
        /\ Eq(call.max, Zero) => drawn = Zero
        /\ res.tag \in {"ListStrategy", "SingleElementListStrategy"}

\* a list of length 2 drawn on the single-element path with 1 <= n <= 2
C1_Witness ==
    /\ call.fn = "lists"
    /\ res.tag = "SingleElementListStrategy"
    /\ call.min = IntNum(1)
    /\ call.max = IntNum(2)
    /\ drawn = IntNum(2)

\* C2: every value of integers(min_value, max_value) is >= min_value when it
\* is given and <= max_value when it is given, on all four branches; with
\* min_value == max_value the strategy is just(min_value) and the value is
\* that bound.
C2_IntegersWithinBounds ==
    (call.fn = "integers" /\ ~IsNone(drawn)) =>
        /\ ~IsNone(call.min) => Ge(drawn, call.min)
        /\ ~IsNone(call.max) => Le(drawn, call.max)
        /\ Eq(call.min, call.max) /\ ~IsNone(call.min) =>
              res = just(call.min) /\ drawn = call.min

\* a value below max_value drawn on the max-only branch
C2_Witness ==
    /\ call.fn = "integers"
    /\ IsNone(call.min)
    /\ call.max = IntNum(1)
    /\ res.tag = "MappedStrategy"
    /\ drawn = IntNum(0 - 1)

\* C3: floats(min_value, max_value) with both bounds finite and
\* min_value <= max_value is just(min_value), a fixed-bounded strategy on
\* [min_value, max_value] or, when max_value - min_value overflows, the union
\* of the fixed-bounded strategies on [0, max_value] and [min_value, 0]; it
\* never yields NaN or an infinity.
C3_FiniteFloatsStayFinite ==
    (call.fn = "floats" /\ IsFinite(call.min) /\ IsFinite(call.max)
        /\ Le(call.min, call.max)) =>
        /\ \/ Eq(call.min, call.max) /\ res = just(call.min)
           \/ /\ ~Eq(call.min, call.max)
              /\ ~isinf(FSub(call.max, call.min))
              /\ res = FixedBoundedFloatStrategy(call.min, call.max)
           \/ /\ isinf(FSub(call.max, call.min))
              /\ res = [tag |-> "OneOfStrategy",
                        args |-> <<FixedBoundedFloatStrategy(Zero, call.max),
                                   FixedBoundedFloatStrategy(call.min, Zero)>>]
        /\ ~IsNone(drawn) => IsFinite(drawn)

\* a value drawn from the union built for an overflowing range
C3_Witness ==
    /\ call.fn = "floats"
    /\ IsFinite(call.min) /\ IsFinite(call.max)
    /\ isinf(FSub(call.max, call.min))
    /\ res.tag = "OneOfStrategy"
    /\ IsFinite(drawn)

\* C4: sets(e, min_size=k, ...) with e's template_upper_bound below k raises
\* InvalidArgument, whatever average_size and max_size are, and nothing is
\* drawn.
C4_SetsRejectsUnreachableMinSize ==
    (call.fn = "sets" /\ check_strategy(call.elements) /\ ~IsNone(call.min)
        /\ Lt(template_upper_bound(call.elements), call.min)) =>
        res = InvalidArgument /\ IsNone(drawn)

\* sets(e, min_size=2) with e of one distinct template has raised
C4_Witness ==
    /\ call.fn = "sets"
    /\ call.elements = ElementStrategy(IntNum(1))
    /\ call.min = IntNum(2)
    /\ IsNone(call.average) /\ IsNone(call.max)
    /\ res = InvalidArgument

\* a size argument is negative or NaN, or max_size < min_size
BadSizes(c) ==
    \/ \E x \in {c.min, c.average, c.max} : Lt(x, Zero) \/ isnan(x)
    \/ Lt(c.max, c.min)

\* C5: every call of lists, sets, frozensets, dictionaries, text or binary
\* with a negative size, a NaN size or max_size < min_size raises
\* InvalidArgument in the constructor.
C5_BadSizesAlwaysRaise ==
    (call.fn \in SizedConstructors /\ BadSizes(call)) => res = InvalidArgument

\* C6: integers and floats called with both bounds and max_value < min_value
\* raise InvalidArgument in the constructor, infinite float end points
\* included, and return no strategy.
C6_ReversedBoundsRaise ==
    (call.fn \in {"integers", "floats"} /\ Lt(call.max, call.min)) =>
        res = InvalidArgument /\ IsNone(drawn)

\* floats(min_value=inf, max_value=1) has raised
C6_Witness ==
    /\ call.fn = "floats"
    /\ call.min = Inf
    /\ call.max = FloatNum(1)
    /\ res = InvalidArgument

\* the number of keys of the dictionary a draw built
KeyCount == IntNum(Cardinality(DOMAIN drawn.result))

\* C7: the mapping build_dict folds never has more than max_size keys, the
\* draw is discarded through assume exactly when it has fewer than min_size
\* keys, and every dictionary returned has min_size <= keys <= max_size.
C7_DictionarySizeWithinBounds ==
    (call.fn = "dictionaries" /\ drawn.k = "dict") =>
        /\ ~IsNone(call.max) => Le(KeyCount, call.max)
        /\ ~drawn.assumed <=> (~IsNone(call.min) /\ Lt(KeyCount, call.min))
        /\ drawn.assumed =>
              /\ ~IsNone(call.min) => Ge(KeyCount, call.min)
              /\ ~IsNone(call.max) => Le(KeyCount, call.max)

\* lists was called with max_size None or > 0 and returned a strategy
NonEmptyListsBuilt ==
    /\ call.fn = "lists"
    /\ ~Raised(res)
    /\ IsNone(call.max) \/ Gt(call.max, Zero)

\* C12: lists(elements, ...) with max_size None or > 0 that builds a strategy
\* builds the single-element representation (the fixed element strategy and
\* a length strategy) whenever elements.template_upper_bound <= 1, and the
\* general ListStrategy over elements only when that bound is greater than 1.
C12_SingleElementWheneverBoundAtMostOne ==
    NonEmptyListsBuilt =>
        /\ Le(template_upper_bound(call.elements), IntNum(1)) =>
              /\ res.tag = "SingleElementListStrategy"
              /\ res.elements = call.elements
        /\ res.tag = "ListStrategy" =>
              /\ Gt(template_upper_bound(call.elements), IntNum(1))
              /\ res.strategies = <<call.elements>>

\* C13: for every call of lists that passes size validation and builds a
\* strategy, whatever min_size, max_size, average_size and
\* Settings.default.average_list_length are: the average_length given to the
\* general ListStrategy is >= min_size and, when max_size is given,
\* <= max_size; the average_size given to the IntegersFromStrategy that is the
\* length strategy of the single-element representation
\* (average_size - min_size) is >= 0.
C13_SizeHintWithinBounds ==
    (call.fn = "lists" /\ ~Raised(res)) =>
        /\ (res.tag = "ListStrategy" /\ res.strategies # <<>>) =>
              /\ Ge(res.average_length, res.min_size)
              /\ IsNone(res.max_size) \/ Le(res.average_length, res.max_size)
        /\ (res.tag = "SingleElementListStrategy"
               /\ res.length_strat.tag = "IntegersFromStrategy") =>
              Ge(res.length_strat.average_size, Zero)

\* a bound that is supplied and is not of an integer type
NonIntegerBound(x) == ~IsNone(x) /\ x.k # "int"

\* C14: integers(min_value, max_value) raises InvalidArgument whenever a
\* supplied bound is not of an integer type, whichever bound it is and
\* whether or not the other bound is supplied; no strategy is built and
\* nothing is drawn.
C14_NonIntegerBoundsRaise ==
    (call.fn = "integers"
        /\ (NonIntegerBound(call.min) \/ NonIntegerBound(call.max))) =>
        res = InvalidArgument /\ IsNone(drawn)

-----------------------------------------------------------------------------
(* Properties of the Settings scopes *)

\* C8: while a non-empty list, set or frozenset specifier is converted with
\* settings S, S is Settings.default (the collection built in the scope
\* reads S.average_list_length); when the scope is left, by return or by
\* InvalidArgument, the stack of defaults is what it was on entry, nested
\* scopes included.
C8_ScopedSettingsRestored ==
    /\ lastExit.how # "none" => lastExit.after = lastExit.entry
    /\ lastExit.how = "return" =>
          lastExit.read = lastExit.settings.average_list_length
    /\ status = "converting" =>
          /\ SettingsDefault = Top(frames).settings
          /\ Pop(defaults) = Top(frames).entry
    /\ status \in {"returned", "raised"} /\ lastExit.how # "none" =>
          frames = <<>> /\ defaults = lastExit.entry

\* InvalidArgument has left a nested scope entered under an outer override
C8_Witness ==
    /\ lastExit.how = "raise"
    /\ lastExit.depth = 2
    /\ status = "raising"
    /\ lastExit.entry[2] = OuterOverride
    /\ defaults = lastExit.entry

-----------------------------------------------------------------------------
(* Properties of find *)

\* C9: when find is Done and recorded as converged, the pass over the
\* returned template was complete and no template of its simplification
\* sequence fails the predicate; a stop with candidates left untried is not
\* recorded as converged.
C9_ConvergedIsLocalMinimum ==
    (phase = "Done" /\ reason = "converged") =>
        /\ best \in fails
        /\ ~HasCandidate(shape, best, idx)
        /\ \A i \in 1 .. Len(Simplify(shape, best)) :
              Simplify(shape, best)[i] \notin fails

\* find converged on a template it shrank to
C9_Witness ==
    /\ phase = "Done"
    /\ reason = "converged"
    /\ shape = "descend"
    /\ best = 1
    /\ attempts >= 3

\* C10: every find run terminates: Searching leads to NotFound or to
\* ShrinkingFrontier, and ShrinkingFrontier leads to Done, also when simplify
\* never ends or revisits templates.
C10_FindTerminates ==
    /\ (phase = "Searching") ~> (phase \in {"NotFound", "ShrinkingFrontier"})
    /\ (phase = "ShrinkingFrontier") ~> (phase = "Done")
    /\ <>(phase \in {"NotFound", "Done"})

\* the attempt budget has stopped a shrink whose simplify revisits templates
C10_Witness ==
    /\ phase = "Done"
    /\ reason = "budget"
    /\ shape = "cycle"
    /\ attempts = MaxShrinks

\* the candidate evaluated in this step, when the step is a shrink attempt
Evaluated == Candidate(shape, best, idx)

\* C11: in ShrinkingFrontier the candidates of the current best are
\* evaluated in the order of its simplification sequence: each shrink attempt
\* evaluates the candidate at the current position; one that fails the
\* predicate becomes the new best and the position restarts at 1, one that
\* passes moves the position on by one and leaves the best alone; no other
\* step changes the best.  Hence every candidate before the current position
\* passes the predicate (no earlier failing candidate is passed over), and
\* the current best always fails the predicate.
C11_GreedyInSimplifyOrder ==
    /\ [](phase \in {"ShrinkingFrontier", "Done"} =>
            /\ best \in fails
            /\ idx >= 1
            /\ \A i \in 1 .. (idx - 1) : Candidate(shape, best, i) \notin fails)
    /\ [][phase = "ShrinkingFrontier" =>
            IF attempts' # attempts
            THEN /\ attempts' = attempts + 1
                 /\ IF Evaluated \in fails
                    THEN best' = Evaluated /\ idx' = 1
                    ELSE best' = best /\ idx' = idx + 1
            ELSE best' = best /\ idx' = idx]_vars

\* the first candidate of 3, which is 2, was adopted although the later
\* candidate 0 of the same pass fails as well
C11_Witness ==
    /\ phase = "ShrinkingFrontier"
    /\ shape = "endless"
    /\ fails = {0, 2, 3}
    /\ best = 2
    /\ idx = 1
    /\ attempts = 1

====
